---- MODULE Spec2Model ----
(***************************************************************************)
(* A model of package replace of F2 (src/unnamed/part_000): the limited    *)
(* regex replacer, the index-variable extraction with the index engine     *)
(* that consumes it, and the replacement chain run by Replace.             *)
(*                                                                         *)
(* A string is a sequence of one-character strings.  A variable token of   *)
(* a replacement template is one element of the sequence ("{2%d<3>}" is   *)
(* an index token, "{x.make}" a metadata token); indexVarSubmatch gives    *)
(* the capture groups the index lexicon yields for a token.                *)
(***************************************************************************)
EXTENDS Integers, Sequences, FiniteSets, TLC

VARIABLES
    rx,       \* the limited regex replacer: one call of regexReplace
    ix,       \* the index engine: one index token over one link's batch
    conf,     \* config.Config as Replace reads and writes it
    matches,  \* the batch: the order of the records (pointers to file.Change)
    recs,     \* the file.Change records, by identity
    pc,       \* where Replace stands
    link,     \* handleReplacementChain's i
    pos,      \* replaceMatches' i (0-based)
    vars,     \* the variables extracted from the link's template
    result,   \* what Replace returned: "none" (running), "batch" or "nil"
    err,      \* the error Replace returned, "" when none
    orig,     \* the records as they were when Replace was called
    trace     \* the collaborators called and the files processed, in order

allvars == <<rx, ix, conf, matches, recs, pc, link, pos, vars, result, err, orig, trace>>

(***************************************************************************)
(* Strings                                                                 *)
(***************************************************************************)

\* Bounds of the inputs the specifications enumerate.
MaxLen == 4
MaxLimit == 2

SeqsUpTo(S, n) == UNION {[1..k -> S] : k \in 0..n}

Range(s) == {s[k] : k \in 1..Len(s)}

Digits == {"0", "1", "2", "3", "4", "5", "6", "7", "8", "9"}

\* \w of the regexp syntax: the characters a word boundary is measured against.
IsWordChar(c) == c \in Digits \cup {"a", "b", "t", "X", "_"}

Min(a, b) == IF a <= b THEN a ELSE b

Max(a, b) == IF a >= b THEN a ELSE b

(***************************************************************************)
(* regexp: a compiled pattern is an optional zero-width assertion (\b or   *)
(* \B) followed by a non-empty literal.                                    *)
(***************************************************************************)

\* regexp.Compile of a find-argument: an unbalanced "(" does not compile.
CompileFails(arg) == "(" \in Range(arg) \/ arg = <<>>

Compile(arg) ==
    IF arg[1] \in {"\\b", "\\B"}
    THEN [ctx |-> arg[1], lit |-> Tail(arg)]
    ELSE [ctx |-> "", lit |-> arg]

\* A word boundary lies before s[i] (i = Len(s)+1: at the end of the text).
AtWordBoundary(s, i) ==
    LET before == i > 1 /\ IsWordChar(s[i - 1])
        after == i <= Len(s) /\ IsWordChar(s[i])
    IN before # after

\* The pattern matches the text s at position i; the assertion reads the text
\* around the match, which is the text handed to the matcher.
MatchAt(re, s, i) ==
    /\ i + Len(re.lit) - 1 <= Len(s)
    /\ SubSeq(s, i, i + Len(re.lit) - 1) = re.lit
    /\ CASE re.ctx = "\\b" -> AtWordBoundary(s, i)
         [] re.ctx = "\\B" -> ~AtWordBoundary(s, i)
         [] OTHER -> TRUE

\* regexp.FindAllString(s, -1), as the start positions of the successive
\* non-overlapping matches.
RECURSIVE FindFrom(_, _, _)
FindFrom(re, s, i) ==
    IF i > Len(s) THEN <<>>
    ELSE IF MatchAt(re, s, i)
         THEN <<i>> \o FindFrom(re, s, i + Len(re.lit))
         ELSE FindFrom(re, s, i + 1)

FindAllString(re, s) == FindFrom(re, s, 1)

\* regexp.ReplaceAllString(s, repl) for a replacement without $-expansions.
RECURSIVE ReplaceAllFrom(_, _, _, _)
ReplaceAllFrom(re, s, repl, i) ==
    IF i > Len(s) THEN <<>>
    ELSE IF MatchAt(re, s, i)
         THEN repl \o ReplaceAllFrom(re, s, repl, i + Len(re.lit))
         ELSE <<s[i]>> \o ReplaceAllFrom(re, s, repl, i + 1)

ReplaceAllString(re, s, repl) == ReplaceAllFrom(re, s, repl, 1)

\* The limit > 0 branch: ReplaceAllStringFunc calls the closure once per match,
\* left to right; the closure re-runs the pattern on the matched text alone.
RECURSIVE ReplaceFirstFrom(_, _, _, _, _, _)
ReplaceFirstFrom(re, s, repl, limit, i, counter) ==
    IF i > Len(s) THEN <<>>
    ELSE IF MatchAt(re, s, i)
         THEN LET val == SubSeq(s, i, i + Len(re.lit) - 1)
              IN IF counter = limit
                 THEN val \o ReplaceFirstFrom(re, s, repl, limit, i + Len(val), counter)
                 ELSE ReplaceAllString(re, val, repl)
                        \o ReplaceFirstFrom(re, s, repl, limit, i + Len(val), counter + 1)
         ELSE <<s[i]>> \o ReplaceFirstFrom(re, s, repl, limit, i + 1, counter)

\* The limit < 0 branch: l = len(matches) + limit matches are passed over.
RECURSIVE ReplaceLastFrom(_, _, _, _, _, _)
ReplaceLastFrom(re, s, repl, l, i, counter) ==
    IF i > Len(s) THEN <<>>
    ELSE IF MatchAt(re, s, i)
         THEN LET val == SubSeq(s, i, i + Len(re.lit) - 1)
              IN IF counter >= l
                 THEN ReplaceAllString(re, val, repl)
                        \o ReplaceLastFrom(re, s, repl, l, i + Len(val), counter)
                 ELSE val \o ReplaceLastFrom(re, s, repl, l, i + Len(val), counter + 1)
         ELSE <<s[i]>> \o ReplaceLastFrom(re, s, repl, l, i + 1, counter)

regexReplace(re, input, replacement, replaceLimit) ==
    IF replaceLimit > 0
    THEN ReplaceFirstFrom(re, input, replacement, replaceLimit, 1, 0)
    ELSE IF replaceLimit < 0
         THEN ReplaceLastFrom(re, input, replacement,
                              Len(FindAllString(re, input)) + replaceLimit, 1, 0)
         ELSE ReplaceAllString(re, input, replacement)

(***************************************************************************)
(* The limited regex replacer on its own: one call on enumerated inputs.   *)
(***************************************************************************)

RegexArgs == {<<"X">>, <<"a", "X">>, <<"\\B", "X">>, <<"\\b", "X">>}

RegexInputs ==
    SeqsUpTo({"a", "X", "-"}, MaxLen) \cup {<<"a", "X", "a", "X", "a", "X", "a">>}

RegexReplacements == {<<"-">>, <<>>, <<"X", "X">>}

RxIdle == [pc |-> "idle", re |-> Compile(<<"X">>), input |-> <<>>,
           repl |-> <<>>, limit |-> 0, output |-> <<>>]

IxIdle == [pc |-> "idle"]

InitRegex ==
    /\ rx \in [pc : {"call"}, re : {Compile(a) : a \in RegexArgs},
               input : RegexInputs, repl : RegexReplacements,
               limit : -MaxLimit..MaxLimit, output : {<<>>}]
    /\ ix = IxIdle
    /\ conf = <<>> /\ matches = <<>> /\ recs = <<>> /\ pc = "idle"
    /\ link = 0 /\ pos = 0 /\ vars = <<>> /\ result = "none" /\ err = ""
    /\ orig = <<>> /\ trace = <<>>

RegexReplaceCall ==
    /\ rx.pc = "call"
    /\ rx' = [rx EXCEPT !.pc = "returned",
                        !.output = regexReplace(rx.re, rx.input, rx.repl, rx.limit)]
    /\ UNCHANGED <<ix, conf, matches, recs, pc, link, pos, vars, result, err, orig, trace>>

NextRegex == RegexReplaceCall

SpecRegex == InitRegex /\ [][NextRegex]_allvars

(***************************************************************************)
(* C1.  regexReplace replaces exactly the selected occurrences (all when   *)
(* limit = 0, those with index < limit when limit > 0, those with index    *)
(* >= total + limit when limit < 0) and leaves every other match and all   *)
(* other text as it was.                                                   *)
(***************************************************************************)

\* The occurrence numbers (0-based) the limit selects among total matches.
Selected(total, limit) ==
    IF limit = 0 THEN 0..(total - 1)
    ELSE IF limit > 0 THEN {k \in 0..(total - 1) : k < limit}
    ELSE {k \in 0..(total - 1) : k >= total + limit}

\* The input with exactly the occurrences in sel replaced by repl.
RECURSIVE ReplaceSelectedFrom(_, _, _, _, _, _)
ReplaceSelectedFrom(re, s, repl, sel, i, k) ==
    IF i > Len(s) THEN <<>>
    ELSE IF MatchAt(re, s, i)
         THEN (IF k \in sel THEN repl ELSE SubSeq(s, i, i + Len(re.lit) - 1))
                \o ReplaceSelectedFrom(re, s, repl, sel, i + Len(re.lit), k + 1)
         ELSE <<s[i]>> \o ReplaceSelectedFrom(re, s, repl, sel, i + 1, k)

C1_ReplacesExactlySelected ==
    rx.pc = "returned" =>
        rx.output = ReplaceSelectedFrom(rx.re, rx.input, rx.repl,
                        Selected(Len(FindAllString(rx.re, rx.input)), rx.limit), 1, 0)

(***************************************************************************)
(* strconv and strings                                                     *)
(***************************************************************************)

DigitChars == <<"0", "1", "2", "3", "4", "5", "6", "7", "8", "9">>

DigitVal(c) == (CHOOSE k \in 1..10 : DigitChars[k] = c) - 1

RECURSIVE DigitsValue(_)
DigitsValue(d) ==
    IF d = <<>> THEN 0
    ELSE 10 * DigitsValue(SubSeq(d, 1, Len(d) - 1)) + DigitVal(d[Len(d)])

\* strconv.Itoa
RECURSIVE NatDigits(_)
NatDigits(n) == IF n < 10 THEN <<DigitChars[n + 1]>>
                ELSE NatDigits(n \div 10) \o <<DigitChars[(n % 10) + 1]>>

Itoa(n) == IF n < 0 THEN <<"-">> \o NatDigits(-n) ELSE NatDigits(n)

\* strconv.Atoi: an optional sign, then digits.  A text of more than 19 digits
\* is out of the range of int (the inputs carry no leading zeros).
AtoiBody(s) == IF s # <<>> /\ s[1] \in {"+", "-"} THEN Tail(s) ELSE s

AtoiFails(s) ==
    \/ AtoiBody(s) = <<>>
    \/ \E k \in 1..Len(AtoiBody(s)) : AtoiBody(s)[k] \notin Digits
    \/ Len(AtoiBody(s)) > 19

Atoi(s) == IF s[1] = "-" THEN -DigitsValue(AtoiBody(s)) ELSE DigitsValue(AtoiBody(s))

\* strings.Split(s, sep) for a one-character separator
RECURSIVE SplitFrom(_, _, _, _)
SplitFrom(s, sep, i, cur) ==
    IF i > Len(s) THEN <<cur>>
    ELSE IF s[i] = sep THEN <<cur>> \o SplitFrom(s, sep, i + 1, <<>>)
    ELSE SplitFrom(s, sep, i + 1, Append(cur, s[i]))

Split(s, sep) == SplitFrom(s, sep, 1, <<>>)

(***************************************************************************)
(* getIndexingVars.  Its input is what indexVarRegex.FindAllStringSubmatch *)
(* yields for the template: per token the text of the capture groups the   *)
(* function reads ([0] the token, [1] the capture variable, [2] the start  *)
(* number, [6] the step, [7] the skip list).                               *)
(***************************************************************************)

\* One entry of the skip list, as parsed: the bounds in the order written.
SkipEntryFails(val) ==
    IF "-" \in Range(val)
    THEN AtoiFails(Split(val, "-")[1]) \/ AtoiFails(Split(val, "-")[2])
    ELSE AtoiFails(val)

\* Faulty variant: the bounds of a range are kept in the order they were written.
numbersToSkipAsWritten(startNum, endNum) == [min |-> startNum, max |-> endNum]

\* numbersToSkip{max: math.Max(startNum, endNum), min: math.Min(startNum, endNum)}
numbersToSkip(startNum, endNum) ==
    [min |-> Min(startNum, endNum), max |-> Max(startNum, endNum)]

SkipEntry(val) ==
    IF "-" \in Range(val)
    THEN numbersToSkip(Atoi(Split(val, "-")[1]), Atoi(Split(val, "-")[2]))
    ELSE numbersToSkip(Atoi(val), Atoi(val))

\* The loop over strings.Split(skipNumbers, ";")
SkipListFails(skipNumbers) ==
    skipNumbers # <<>> /\ \E k \in 1..Len(Split(skipNumbers, ";")) :
                              SkipEntryFails(Split(skipNumbers, ";")[k])

SkipList(skipNumbers) ==
    IF skipNumbers = <<>> THEN <<>>
    ELSE [k \in 1..Len(Split(skipNumbers, ";")) |-> SkipEntry(Split(skipNumbers, ";")[k])]

\* The body of the loop over the submatches: one indexVarMatch.
IndexMatchFails(submatch) ==
    \/ submatch.start # <<>> /\ AtoiFails(submatch.start)
    \/ submatch.step # <<>> /\ AtoiFails(submatch.step)
    \/ SkipListFails(submatch.skip)

IndexMatch(submatch) ==
    [token |-> submatch.token,
     startNumber |-> IF submatch.start # <<>> THEN Atoi(submatch.start) ELSE 1,
     step |-> [isSet |-> submatch.step # <<>>,
               value |-> IF submatch.step # <<>> THEN Atoi(submatch.step) ELSE 0],
     skip |-> SkipList(submatch.skip)]

NoIndexVars == [err |-> "", matches |-> <<>>, capturVarIndex |-> {}, offset |-> <<>>]

\* An error returns the matches parsed before the failing one and no offsets.
getIndexingVars(submatches) ==
    IF \E k \in 1..Len(submatches) : IndexMatchFails(submatches[k])
    THEN LET bad == CHOOSE k \in 1..Len(submatches) :
                        /\ IndexMatchFails(submatches[k])
                        /\ \A h \in 1..(k - 1) : ~IndexMatchFails(submatches[h])
         IN [err |-> "strconv.Atoi",
             matches |-> [k \in 1..(bad - 1) |-> IndexMatch(submatches[k])],
             capturVarIndex |-> {k - 1 : k \in {h \in 1..bad : submatches[h].capture # <<>>}},
             offset |-> <<>>]
    ELSE [err |-> "",
          matches |-> [k \in 1..Len(submatches) |-> IndexMatch(submatches[k])],
          capturVarIndex |-> {k - 1 : k \in {h \in 1..Len(submatches) :
                                                submatches[h].capture # <<>>}},
          offset |-> [k \in 1..Len(submatches) |-> 0]]

(***************************************************************************)
(* The index engine (replaceIndex, which consumes an indexVarMatch): the   *)
(* candidate for file number changeIndex is startNumber + changeIndex*step *)
(* + offset; while it lies in a skip range it advances by step, and so     *)
(* does the offset.                                                        *)
(***************************************************************************)

\* A step that is not set counts by 1.
StepOf(match) == IF match.step.isSet THEN match.step.value ELSE 1

InSkipRange(num, skip) == \E k \in 1..Len(skip) : num >= skip[k].min /\ num <= skip[k].max

Candidate(match, changeIndex, offset) ==
    match.startNumber + changeIndex * StepOf(match) + offset

(***************************************************************************)
(* The index engine on its own: one index token, extracted by              *)
(* getIndexingVars, numbers the IxFiles files of one link's batch.  The    *)
(* skip loop is one step per iteration.                                    *)
(***************************************************************************)

IxFiles == 4
MaxStart == 2
MaxStep == 2
MaxSkip == 3

\* A start number too long for strconv.Atoi.
TooLong == [k \in 1..20 |-> "9"]

\* What the user wrote in the token: the start number, the step, and the skip
\* ranges <<a, b>> (written "a" when a = b, "a-b" otherwise, in this order).
IxSkipEntries == (0..MaxSkip) \X (0..MaxSkip)

IxSkipLists == {<<>>} \cup {<<e>> : e \in IxSkipEntries}
                      \cup {<<e, f>> : e \in IxSkipEntries, f \in IxSkipEntries}

IxWritten ==
    [startSet : {TRUE}, start : 0..MaxStart, stepSet : {TRUE}, step : -MaxStep..MaxStep,
     skip : IxSkipLists, overflow : {FALSE}]
    \cup [startSet : {FALSE}, start : {1}, stepSet : {TRUE}, step : -MaxStep..MaxStep,
          skip : IxSkipLists, overflow : {FALSE}]
    \cup [startSet : {TRUE}, start : 0..MaxStart, stepSet : {FALSE}, step : {1},
          skip : IxSkipLists, overflow : {FALSE}]
    \cup [startSet : {TRUE}, start : {0}, stepSet : {FALSE}, step : {1},
          skip : {<<>>}, overflow : {TRUE}]

SkipEntryText(e) == IF e[1] = e[2] THEN Itoa(e[1]) ELSE Itoa(e[1]) \o <<"-">> \o Itoa(e[2])

RECURSIVE SkipText(_)
SkipText(skip) ==
    IF skip = <<>> THEN <<>>
    ELSE IF Len(skip) = 1 THEN SkipEntryText(skip[1])
    ELSE SkipEntryText(skip[1]) \o <<";">> \o SkipText(Tail(skip))

\* The capture groups indexVarRegex yields for the token as written.
SubmatchOf(w) ==
    [token |-> "{i}", capture |-> <<>>,
     start |-> IF w.overflow THEN TooLong ELSE IF w.startSet THEN Itoa(w.start) ELSE <<>>,
     step |-> IF w.stepSet THEN Itoa(w.step) ELSE <<>>,
     skip |-> SkipText(w.skip)]

IxStart == CHOOSE w \in IxWritten : ~w.startSet /\ w.step = 1 /\ w.skip = <<>>

InitIndex ==
    /\ ix = [pc |-> "template", written |-> IxStart, submatches |-> <<>>,
             vars |-> NoIndexVars, changeIndex |-> 0, num |-> 0, out |-> <<>>]
    /\ rx = RxIdle
    /\ conf = <<>> /\ matches = <<>> /\ recs = <<>> /\ pc = "idle"
    /\ link = 0 /\ pos = 0 /\ vars = <<>> /\ result = "none" /\ err = ""
    /\ orig = <<>> /\ trace = <<>>

IxUnchanged == UNCHANGED <<rx, conf, matches, recs, pc, link, pos, vars, result, err, orig, trace>>

\* The link's template is set: it holds one index token, as the user wrote it.
IxTemplate ==
    /\ ix.pc = "template"
    /\ \E w \in IxWritten :
          ix' = [ix EXCEPT !.pc = "extract", !.written = w,
                           !.submatches = <<SubmatchOf(w)>>]
    /\ IxUnchanged

\* extractVariables for the link: an error ends the link before any file.
IxExtract ==
    /\ ix.pc = "extract"
    /\ LET v == getIndexingVars(ix.submatches)
       IN ix' = [ix EXCEPT !.vars = v,
                           !.pc = IF v.err # "" THEN "failed" ELSE "file"]
    /\ IxUnchanged

\* replaceIndex is entered for the next file of the batch.
IxEnter ==
    /\ ix.pc = "file"
    /\ ix.changeIndex < IxFiles
    /\ ix' = [ix EXCEPT !.pc = "skip",
                        !.num = Candidate(ix.vars.matches[1], ix.changeIndex,
                                          ix.vars.offset[1])]
    /\ IxUnchanged

\* One iteration of the skip loop: the candidate lies in a skip range.
IxSkip ==
    /\ ix.pc = "skip"
    /\ InSkipRange(ix.num, ix.vars.matches[1].skip)
    /\ ix' = [ix EXCEPT !.num = ix.num + StepOf(ix.vars.matches[1]),
                        !.vars.offset[1] = @ + StepOf(ix.vars.matches[1])]
    /\ IxUnchanged

\* The loop is left: the candidate is the file's number.
IxEmit ==
    /\ ix.pc = "skip"
    /\ ~InSkipRange(ix.num, ix.vars.matches[1].skip)
    /\ ix' = [ix EXCEPT !.pc = "file", !.out = Append(ix.out, ix.num),
                        !.changeIndex = ix.changeIndex + 1]
    /\ IxUnchanged

\* The link's pass over the batch is complete.
IxFinish ==
    /\ ix.pc = "file"
    /\ ix.changeIndex = IxFiles
    /\ ix' = [ix EXCEPT !.pc = "done"]
    /\ IxUnchanged

NextIndex == IxTemplate \/ IxExtract \/ IxEnter \/ IxSkip \/ IxEmit \/ IxFinish

SpecIndex == InitIndex /\ [][NextIndex]_allvars

\* The skip loop runs on: an iteration that is possible is eventually taken.
FairSpecIndex == InitIndex /\ [][NextIndex]_allvars /\ WF_ix(IxSkip \/ IxEmit)

(***************************************************************************)
(* C5.  The values emitted for the successive files of a link are          *)
(* monotonically non-decreasing and none lies inside a skip range          *)
(* [min, max], whatever the order the bounds were written in.              *)
(***************************************************************************)

InWrittenRange(n, skip) ==
    \E k \in 1..Len(skip) : /\ n >= Min(skip[k][1], skip[k][2])
                            /\ n <= Max(skip[k][1], skip[k][2])

NoneSkipped == \A k \in 1..Len(ix.out) : ~InWrittenRange(ix.out[k], ix.written.skip)

C10_SkipLoopEnds == (ix.pc = "skip") ~> (ix.pc = "file")

(***************************************************************************)
(* path/filepath, strings and pathutil                                     *)
(***************************************************************************)

\* filepath.Ext: the suffix from the last dot of the last path element.
RECURSIVE ExtFrom(_, _)
ExtFrom(path, i) ==
    IF i < 1 \/ path[i] = "/" THEN <<>>
    ELSE IF path[i] = "." THEN SubSeq(path, i, Len(path))
    ELSE ExtFrom(path, i - 1)

Ext(path) == ExtFrom(path, Len(path))

\* pathutil.StripExtension: the name without filepath.Ext of it.
StripExtension(fileName) == SubSeq(fileName, 1, Len(fileName) - Len(Ext(fileName)))

\* strings.TrimSpace
RECURSIVE TrimLeft(_)
TrimLeft(s) == IF s # <<>> /\ s[1] = " " THEN TrimLeft(Tail(s)) ELSE s

RECURSIVE TrimRight(_)
TrimRight(s) ==
    IF s # <<>> /\ s[Len(s)] = " " THEN TrimRight(SubSeq(s, 1, Len(s) - 1)) ELSE s

TrimSpace(s) == TrimRight(TrimLeft(s))

\* strings.Join(elems, "/")
RECURSIVE JoinSlash(_)
JoinSlash(elems) ==
    IF elems = <<>> THEN <<>>
    ELSE IF Len(elems) = 1 THEN elems[1]
    ELSE elems[1] \o <<"/">> \o JoinSlash(Tail(elems))

\* filepath.Clean: the elements of the path with "" and "." dropped and each
\* ".." taking back the element before it (dropped at the root, kept when
\* nothing is left to take back).
RECURSIVE CleanElems(_, _, _)
CleanElems(elems, out, rooted) ==
    IF elems = <<>> THEN out
    ELSE LET e == elems[1]
         IN IF e = <<>> \/ e = <<".">>
            THEN CleanElems(Tail(elems), out, rooted)
            ELSE IF e = <<".", ".">>
                 THEN IF out # <<>> /\ out[Len(out)] # <<".", ".">>
                      THEN CleanElems(Tail(elems), SubSeq(out, 1, Len(out) - 1), rooted)
                      ELSE IF rooted
                           THEN CleanElems(Tail(elems), out, rooted)
                           ELSE CleanElems(Tail(elems), Append(out, e), rooted)
                 ELSE CleanElems(Tail(elems), Append(out, e), rooted)

Clean(path) ==
    IF path = <<>> THEN <<".">>
    ELSE LET rooted == path[1] = "/"
             out == CleanElems(Split(path, "/"), <<>>, rooted)
         IN IF rooted THEN <<"/">> \o JoinSlash(out)
            ELSE IF out = <<>> THEN <<".">> ELSE JoinSlash(out)

\* filepath.Join(dir, name): the non-empty elements joined and cleaned.
Join(dir, name) ==
    IF dir = <<>> /\ name = <<>> THEN <<>>
    ELSE IF dir = <<>> THEN Clean(name)
    ELSE IF name = <<>> THEN Clean(dir)
    ELSE Clean(dir \o <<"/">> \o name)

\* The number of directories in a base directory.
Depth(dir) == IF dir = <<>> THEN 0 ELSE Len(Split(dir, "/"))

(***************************************************************************)
(* sortfiles                                                               *)
(***************************************************************************)

\* A stable sort of a sequence of record identities by key[id].
RECURSIVE InsertByKey(_, _, _)
InsertByKey(sorted, id, key) ==
    IF sorted = <<>> THEN <<id>>
    ELSE IF key[sorted[Len(sorted)]] <= key[id] THEN Append(sorted, id)
    ELSE Append(InsertByKey(SubSeq(sorted, 1, Len(sorted) - 1), id, key), sorted[Len(sorted)])

RECURSIVE StableSortFrom(_, _, _)
StableSortFrom(seq, key, sorted) ==
    IF seq = <<>> THEN sorted
    ELSE StableSortFrom(Tail(seq), key, InsertByKey(sorted, seq[1], key))

StableSort(seq, key) == StableSortFrom(seq, key, <<>>)

Reverse(seq) == [k \in 1..Len(seq) |-> seq[Len(seq) + 1 - k]]

\* sortfiles.Changes: only a known criterion sorts.
SortFails(criterion) == criterion \notin {"size"}

SortChanges(batch, records, criterion, reverse) ==
    LET asc == StableSort(batch, [id \in DOMAIN records |-> records[id].Size])
    IN IF reverse THEN Reverse(asc) ELSE asc

\* sortfiles.EnforceHierarchicalOrder: every directory before its descendants,
\* the order among entries of one level kept.
EnforceHierarchicalOrder(batch, records) ==
    StableSort(batch, [id \in DOMAIN records |-> Depth(records[id].BaseDir)])

(***************************************************************************)
(* Variable tokens of a replacement template                               *)
(***************************************************************************)

\* The index tokens the templates use: {%d}, {2%d<3>} and one whose start
\* number is too long.
IndexTokens == {"{%d}", "{2%d<3>}", "{99999999999999999999%d}"}

\* The exif token the templates use.
ExifTokens == {"{x.make}"}

\* indexVarRegex.FindAllStringSubmatch(template, -1): the capture groups of the
\* index tokens of the template, in the order of appearance.
indexVarSubmatch(token) ==
    [token |-> token, capture |-> <<>>,
     start |-> CASE token = "{2%d<3>}" -> <<"2">>
                 [] token = "{99999999999999999999%d}" -> TooLong
                 [] OTHER -> <<>>,
     step |-> <<>>,
     skip |-> IF token = "{2%d<3>}" THEN <<"3">> ELSE <<>>]

RECURSIVE TokensOf(_, _)
TokensOf(template, kind) ==
    IF template = <<>> THEN <<>>
    ELSE IF template[1] \in kind THEN <<template[1]>> \o TokensOf(Tail(template), kind)
    ELSE TokensOf(Tail(template), kind)

FindAllIndexSubmatch(template) ==
    [k \in 1..Len(TokensOf(template, IndexTokens)) |->
        indexVarSubmatch(TokensOf(template, IndexTokens)[k])]

\* extractVariables: every lexicon is run on the template; the first error
\* is returned.
extractVariables(replacement) ==
    LET index == getIndexingVars(FindAllIndexSubmatch(replacement))
    IN [err |-> index.err, index |-> index, exif |-> TokensOf(replacement, ExifTokens)]

NoVars == [err |-> "", index |-> NoIndexVars, exif |-> <<>>]

\* regex.ReplaceAllString(target, value) for the regex of one token
RECURSIVE ReplaceToken(_, _, _)
ReplaceToken(target, token, value) ==
    IF target = <<>> THEN <<>>
    ELSE IF target[1] = token THEN value \o ReplaceToken(Tail(target), token, value)
    ELSE <<target[1]>> \o ReplaceToken(Tail(target), token, value)

\* The skip loop of the index engine, run to its end.
RECURSIVE SkipLoop(_, _, _)
SkipLoop(num, step, skip) ==
    IF InSkipRange(num, skip) THEN SkipLoop(num + step, step, skip) ELSE num

\* replaceIndex: every index token of the target gets its number.
RECURSIVE replaceIndexFrom(_, _, _, _)
replaceIndexFrom(target, changeIndex, indexing, k) ==
    IF k > Len(indexing.matches) THEN [target |-> target, indexing |-> indexing]
    ELSE LET current == indexing.matches[k]
             first == Candidate(current, changeIndex, indexing.offset[k])
             num == SkipLoop(first, StepOf(current), current.skip)
         IN replaceIndexFrom(ReplaceToken(target, current.token, Itoa(num)), changeIndex,
                             [indexing EXCEPT !.offset[k] = @ + (num - first)], k + 1)

replaceIndex(target, changeIndex, indexing) == replaceIndexFrom(target, changeIndex, indexing, 1)

\* replaceVariables: the exif tokens are resolved by the provider, which fails
\* for a file it cannot read; then the index tokens are numbered.
replaceVariablesFails(change, v) == v.exif # <<>> /\ change.ProviderFails

replaceVariables(change, v) ==
    LET exifDone == IF v.exif # <<>>
                    THEN ReplaceToken(change.Target, v.exif[1], change.Make)
                    ELSE change.Target
        indexDone == IF Len(v.index.matches) > 0
                     THEN replaceIndex(exifDone, change.Index, v.index)
                     ELSE [target |-> exifDone, indexing |-> v.index]
    IN [Target |-> indexDone.target, vars |-> [v EXCEPT !.index = indexDone.indexing]]

(***************************************************************************)
(* Replace: the batch, the configuration and the chain                     *)
(***************************************************************************)

MaxLinks == 2
MaxFiles == 2

\* The files a batch is drawn from: a file inside a directory, that directory,
\* and a file whose extension ends in a space and whose metadata cannot be read.
FilePool ==
    <<[Source |-> <<"a", "X", ".", "a">>, BaseDir |-> <<"a", ".", "X">>, IsDir |-> FALSE,
       Size |-> 3, ProviderFails |-> FALSE, Make |-> <<"b">>,
       Target |-> <<>>, RelTargetPath |-> <<>>, Status |-> "", Index |-> 0],
      [Source |-> <<"a", ".", "X">>, BaseDir |-> <<>>, IsDir |-> TRUE,
       Size |-> 1, ProviderFails |-> FALSE, Make |-> <<"b">>,
       Target |-> <<>>, RelTargetPath |-> <<>>, Status |-> "", Index |-> 0],
      [Source |-> <<"X", "a", ".", "t", " ">>, BaseDir |-> <<>>, IsDir |-> FALSE,
       Size |-> 2, ProviderFails |-> TRUE, Make |-> <<>>,
       Target |-> <<>>, RelTargetPath |-> <<>>, Status |-> "", Index |-> 0]>>

Distinct(seq) == \A h, k \in 1..Len(seq) : h # k => seq[h] # seq[k]

Batches == {b \in SeqsUpTo(DOMAIN FilePool, MaxFiles) : b # <<>> /\ Distinct(b)}

\* The links a chain is drawn from, as (find-argument, replacement template):
\* plain replacements (one empty, one ending in a separator), one with an index
\* token, one with an exif token, one whose index token does not parse, and
\* one whose find-argument does not compile.
LinkPool ==
    {[find |-> <<"X">>, replace |-> <<"b">>],
     [find |-> <<"a">>, replace |-> <<>>],
     [find |-> <<"X">>, replace |-> <<"a", "/">>],
     [find |-> <<"a">>, replace |-> <<"X", "{2%d<3>}">>],
     [find |-> <<"a">>, replace |-> <<"{x.make}">>],
     [find |-> <<"X">>, replace |-> <<"{99999999999999999999%d}">>],
     [find |-> <<"(">>, replace |-> <<"b">>]}

\* The find-argument of the first link was compiled when the configuration was set up.
Chains ==
    {c \in SeqsUpTo(LinkPool, MaxLinks) : c # <<>> /\ ~CompileFails(c[1].find)}

Limits == {-1, 0, 1}

SortConfigs == {<<"", FALSE>>, <<"size", FALSE>>, <<"size", TRUE>>}

Init ==
    /\ rx = RxIdle
    /\ ix = IxIdle
    /\ \E chain \in Chains, limit \in Limits, ignoreExt \in BOOLEAN, sort \in SortConfigs :
          conf = [Sort |-> sort[1], ReverseSort |-> sort[2], IgnoreExt |-> ignoreExt,
                  ReplaceLimit |-> limit,
                  FindSlice |-> [k \in 1..Len(chain) |-> chain[k].find],
                  ReplacementSlice |-> [k \in 1..Len(chain) |-> chain[k].replace],
                  SearchRegex |-> Compile(chain[1].find),
                  Replacement |-> chain[1].replace]
    /\ matches \in Batches
    /\ recs = [id \in Range(matches) |-> FilePool[id]]
    /\ orig = recs
    /\ pc = "Replace"
    /\ link = 0
    /\ pos = 0
    /\ vars = NoVars
    /\ result = "none"
    /\ err = ""
    /\ trace = <<>>

\* Faulty variant: the limit is dropped, every match is replaced.
replaceStringUnlimited(c, originalName) ==
    regexReplace(c.SearchRegex, originalName, c.Replacement, 0)

\* replaceString: the regex replacement under the configured pattern,
\* template and limit.
replaceString(c, originalName) ==
    regexReplace(c.SearchRegex, originalName, c.Replacement, c.ReplaceLimit)

\* The extension is set aside for a file (not a directory) in
\* extension-preserving mode.
StripsExt(c, change) == c.IgnoreExt /\ ~change.IsDir

\* Faulty variant: the extension that was set aside is never put back.
ReattachExtDropped(c, change, target, fileExt) == target

\* "Reattach the original extension to the new file name"
ReattachExt(c, change, target, fileExt) ==
    IF StripsExt(c, change) THEN target \o fileExt ELSE target

\* strings.TrimSpace(filepath.Clean(change.Target))
NormalizeTarget(target) == TrimSpace(Clean(target))

\* Faulty variant: every link reorders the batch.
NeedsHierarchicalOrderAlways(v) == TRUE

\* The hierarchical reorder is asked for by an index token in the template.
NeedsHierarchicalOrder(v) == Len(v.index.matches) > 0

Event(op, i, id, name, flag) == [op |-> op, link |-> i, id |-> id, name |-> name, flag |-> flag]

\* The record of one iteration of the loop: the target it left in the record,
\* and the name the substitution produced before the extension was put back.
FileEvent(i, id, name, flag, stem) ==
    [op |-> "file", link |-> i, id |-> id, name |-> name, flag |-> flag, stem |-> stem]

\* Faulty variant: the batch is returned along with the error.
ReturnErrorWithBatch(e) ==
    /\ pc' = "returned"
    /\ result' = "batch"
    /\ err' = e

\* return nil, err
ReturnError(e) ==
    /\ pc' = "returned"
    /\ result' = "nil"
    /\ err' = e

\* return matches, nil
ReturnBatch ==
    /\ pc' = "returned"
    /\ result' = "batch"
    /\ err' = ""

\* Replace up to the call of handleReplacementChain: the optional pre-sort,
\* which the collaborator may fail.
ReplaceEntry ==
    /\ pc = "Replace"
    /\ IF conf.Sort = ""
       THEN /\ pc' = "link"
            /\ UNCHANGED <<matches, result, err, trace>>
       ELSE \E failed \in BOOLEAN :
               IF failed \/ SortFails(conf.Sort)
               THEN /\ ReturnError("sort")
                    /\ trace' = Append(trace, Event("sort", 0, 0, <<>>, FALSE))
                    /\ UNCHANGED matches
               ELSE /\ matches' = SortChanges(matches, recs, conf.Sort, conf.ReverseSort)
                    /\ trace' = Append(trace, Event("sort", 0, 0, <<>>, TRUE))
                    /\ pc' = "link"
                    /\ UNCHANGED <<result, err>>
    /\ UNCHANGED <<rx, ix, conf, recs, link, pos, vars, orig>>

\* One iteration of handleReplacementChain up to replaceMatches' loop:
\* config.SetReplacement(v), extractVariables, the hierarchical reorder.
LinkBegin ==
    /\ pc = "link"
    /\ LET v == conf.ReplacementSlice[link + 1]
           extracted == extractVariables(v)
       IN /\ conf' = [conf EXCEPT !.Replacement = v]
          /\ vars' = extracted
          /\ IF extracted.err # ""
             THEN /\ ReturnError(extracted.err)
                  /\ UNCHANGED <<matches, trace>>
             ELSE /\ pc' = "file"
                  /\ UNCHANGED <<result, err>>
                  /\ IF NeedsHierarchicalOrder(extracted)
                     THEN /\ matches' = EnforceHierarchicalOrder(matches, recs)
                          /\ trace' = Append(trace, Event("reorder", link, 0, <<>>,
                                                 matches' # matches))
                     ELSE UNCHANGED <<matches, trace>>
    /\ pos' = 0
    /\ UNCHANGED <<rx, ix, recs, link, orig>>

\* One iteration of replaceMatches' loop: the record is written in place.
FileStep ==
    /\ pc = "file"
    /\ pos < Len(matches)
    /\ LET id == matches[pos + 1]
           change == recs[id]
           fileExt == Ext(change.Source)
           originalName == IF StripsExt(conf, change)
                           THEN StripExtension(change.Source)
                           ELSE change.Source
           replaced == [change EXCEPT !.Index = pos,
                                      !.Target = replaceString(conf, originalName)]
       IN IF replaceVariablesFails(replaced, vars)
          THEN /\ recs' = [recs EXCEPT ![id] = replaced]
               /\ ReturnError("provider")
               /\ trace' = Append(trace, FileEvent(link, id, replaced.Target, FALSE,
                                                 replaced.Target))
               /\ UNCHANGED <<vars, pos>>
          ELSE LET substituted == replaceVariables(replaced, vars)
                   target == NormalizeTarget(
                                 ReattachExt(conf, change, substituted.Target, fileExt))
               IN /\ recs' = [recs EXCEPT ![id] =
                                 [replaced EXCEPT !.Target = target,
                                                  !.Status = "ok",
                                                  !.RelTargetPath = Join(change.BaseDir, target)]]
                  /\ vars' = substituted.vars
                  /\ pos' = pos + 1
                  /\ trace' = Append(trace, FileEvent(link, id, target, TRUE,
                                                    substituted.Target))
                  /\ UNCHANGED <<pc, result, err>>
    /\ UNCHANGED <<rx, ix, conf, matches, link, orig>>

\* The chain is over after the only link, or after the last of several.
IsFinalLink(i, n) == n = 1 \/ (i > 0 /\ i = n - 1)

\* Faulty variant: the next link is given the name the previous link was given.
NextSourceKept(change, i, n) == change.Source

\* "Update the source to the target from the previous replacement in
\* preparation for the next replacement"
NextSource(change, i, n) == IF i # n - 1 THEN change.Target ELSE change.Source

\* handleReplacementChain after replaceMatches returned the batch: return it,
\* or hand the targets on as sources and compile the next find-argument
\* (conf.SetFindStringRegex(i + 1)).
LinkEnd ==
    /\ pc = "file"
    /\ pos = Len(matches)
    /\ LET n == Len(conf.ReplacementSlice)
       IN IF IsFinalLink(link, n)
          THEN /\ ReturnBatch
               /\ UNCHANGED <<conf, recs, link, trace>>
          ELSE /\ recs' = [id \in DOMAIN recs |->
                              [recs[id] EXCEPT !.Source = NextSource(recs[id], link, n)]]
               /\ IF CompileFails(conf.FindSlice[link + 2])
                  THEN /\ ReturnError("regexp")
                       /\ trace' = Append(trace, Event("compile", link + 1, 0, <<>>, FALSE))
                       /\ UNCHANGED <<conf, link>>
                  ELSE /\ conf' = [conf EXCEPT
                                      !.SearchRegex = Compile(conf.FindSlice[link + 2])]
                       /\ trace' = Append(trace, Event("compile", link + 1, 0, <<>>, TRUE))
                       /\ link' = link + 1
                       /\ pc' = "link"
                       /\ UNCHANGED <<result, err>>
    /\ UNCHANGED <<rx, ix, matches, pos, vars, orig>>

Next == ReplaceEntry \/ LinkBegin \/ FileStep \/ LinkEnd

Spec == Init /\ [][Next]_allvars

(***************************************************************************)
(* What the trace and the records say about a run                          *)
(***************************************************************************)

NumLinks == Len(conf.ReplacementSlice)

Returned == pc = "returned"

Succeeded == pc = "returned" /\ result = "batch"

Failed == pc = "returned" /\ err # ""

\* Link i's loop reached the record id.
Reached(i, id) ==
    \E k \in 1..Len(trace) : trace[k].op = "file" /\ trace[k].link = i /\ trace[k].id = id

ReachedAtAll(id) == \E i \in 0..(NumLinks - 1) : Reached(i, id)

\* The last link whose loop reached the record id.
LastLink(id) == CHOOSE i \in 0..(NumLinks - 1) :
                    Reached(i, id) /\ \A h \in (i + 1)..(NumLinks - 1) : ~Reached(h, id)

\* Link i's loop completed the record id.
Completed(i, id) ==
    \E k \in 1..Len(trace) :
        trace[k].op = "file" /\ trace[k].link = i /\ trace[k].id = id /\ trace[k].flag

\* The Target link i recorded for the record id.
RecordedTarget(i, id) ==
    trace[CHOOSE k \in 1..Len(trace) :
              trace[k].op = "file" /\ trace[k].link = i /\ trace[k].id = id].name

\* The name link i read for the record id.
LinkInput(i, id) == IF i = 0 THEN orig[id].Source ELSE RecordedTarget(i - 1, id)

HasIndexToken(i) == TokensOf(conf.ReplacementSlice[i + 1], IndexTokens) # <<>>

HasNoToken(i) == TokensOf(conf.ReplacementSlice[i + 1], IndexTokens \cup ExifTokens) = <<>>

\* The number of times the sources were overwritten with the targets.
HandedOn == Cardinality({k \in 1..Len(trace) : trace[k].op = "compile"})

EndsWith(s, suffix) ==
    Len(suffix) <= Len(s) /\ SubSeq(s, Len(s) - Len(suffix) + 1, Len(s)) = suffix

(***************************************************************************)
(* C2.  In a chain of n >= 2 links, when link k+1 runs every file's Source *)
(* is the Target link k recorded for it and the pattern in force is the    *)
(* one compiled from link k+1's own find-argument; after the final link    *)
(* Source is not overwritten again and no find-argument with index >= n    *)
(* is compiled.                                                            *)
(***************************************************************************)

C2_TargetsHandedOnAsSources ==
    /\ pc \in {"link", "file"} =>
          /\ conf.SearchRegex = Compile(conf.FindSlice[link + 1])
          /\ link > 0 => \A id \in DOMAIN recs : recs[id].Source = RecordedTarget(link - 1, id)
    /\ (Succeeded /\ NumLinks >= 2) =>
          \A id \in DOMAIN recs : recs[id].Source = RecordedTarget(NumLinks - 2, id)
    /\ \A k \in 1..Len(trace) : trace[k].op = "compile" => trace[k].link < NumLinks

\* The second link runs on sources that the first link changed.
C2_Witness ==
    /\ pc = "file" /\ link = 1 /\ pos = 1
    /\ conf.FindSlice[1] # conf.FindSlice[2]
    /\ \E id \in DOMAIN recs : recs[id].Source # orig[id].Source

(***************************************************************************)
(* C3.  If variable extraction or substitution fails at link k, Replace    *)
(* returns the error and no batch: no file after the failing one is        *)
(* processed in link k, no link after k runs, and a batch is never         *)
(* returned together with an error.                                        *)
(***************************************************************************)

\* The record is as the link before link i left it.
UntouchedBy(i, id) ==
    /\ ~Reached(i, id)
    /\ IF i = 0
       THEN recs[id].Target = orig[id].Target /\ recs[id].Status = orig[id].Status
       ELSE recs[id].Target = RecordedTarget(i - 1, id)

C3_FailureAbortsTheBatch ==
    /\ result = "batch" => err = ""
    /\ (Returned /\ err # "") => result = "nil"
    /\ (Returned /\ err \in {"strconv.Atoi", "provider"}) =>
          /\ \A k \in 1..Len(trace) : trace[k].link <= link
          /\ err = "strconv.Atoi" => \A id \in DOMAIN recs : UntouchedBy(link, id)
          /\ err = "provider" =>
                \A j \in (pos + 2)..Len(matches) : UntouchedBy(link, matches[j])

\* The provider fails in the second link for a file that is not the last.
C3_Witness ==
    /\ Failed /\ err = "provider" /\ link = 1
    /\ pos + 1 < Len(matches)

(***************************************************************************)
(* C6.  After a two-link chain [(A->B),(B->C)] succeeded, every file whose *)
(* original name matches A has the second link's result as its Target,    *)
(* and the name the first link produced is held by no field of the record. *)
(***************************************************************************)

C6_IntermediateNameNotVisible ==
    (Succeeded /\ NumLinks = 2) =>
        \A id \in DOMAIN recs :
            FindAllString(Compile(conf.FindSlice[1]), orig[id].Source) # <<>> =>
                /\ recs[id].Target = RecordedTarget(1, id)
                /\ RecordedTarget(0, id) \notin {orig[id].Source, recs[id].Target} =>
                      RecordedTarget(0, id) \notin {recs[id].Source, recs[id].Target,
                                                    recs[id].RelTargetPath}

(***************************************************************************)
(* C9.  Whenever Replace returns an error, every record has the Source,    *)
(* Target, Status and Index it had before the call.                        *)
(***************************************************************************)

SameAsBefore(id) ==
    /\ recs[id].Source = orig[id].Source
    /\ recs[id].Target = orig[id].Target
    /\ recs[id].Status = orig[id].Status
    /\ recs[id].Index = orig[id].Index

\* The claim as stated.
C9_FailureLeavesRecordsAsBefore == Failed => \A id \in DOMAIN recs : SameAsBefore(id)

\* What a failure does leave: only the records no link reached are as before
\* the call; a record a link completed carries that link's Target and Status
\* OK, and the Source is the target of the last link whose targets were
\* handed on.
C9_FailureLeavesUnreachedRecords ==
    Failed =>
        \A id \in DOMAIN recs :
            /\ ~ReachedAtAll(id) => SameAsBefore(id)
            /\ ReachedAtAll(id) => recs[id].Target = RecordedTarget(LastLink(id), id)
            /\ Completed(0, id) => recs[id].Status = "ok"
            /\ recs[id].Source =
                  IF HandedOn = 0 THEN orig[id].Source ELSE RecordedTarget(HandedOn - 1, id)

(***************************************************************************)
(* C7.  Within one Replace the batch is hierarchically reordered at most   *)
(* once: after the optional pre-sort and before any file is processed by   *)
(* the first link whose template has an index token, not for a link        *)
(* without one, and not again for later links.                             *)
(***************************************************************************)

Reorders == {k \in 1..Len(trace) : trace[k].op = "reorder"}

\* Every reorder is asked for by an index token of its link's template, comes
\* after the pre-sort and before the link's first file; a link is reordered
\* for at most once, and its files are processed after the reorder.
ReorderPlacement ==
    /\ \A k \in Reorders :
          /\ HasIndexToken(trace[k].link)
          /\ \A h \in 1..Len(trace) :
                /\ trace[h].op = "sort" => h < k
                /\ trace[h].op = "file" /\ trace[h].link = trace[k].link => k < h
                /\ h \in Reorders /\ trace[h].link = trace[k].link => h = k
    /\ \A h \in 1..Len(trace) :
          trace[h].op = "file" /\ HasIndexToken(trace[h].link) =>
              \E k \in Reorders : trace[k].link = trace[h].link

\* The claim as stated: at most one reorder in the invocation.
C7_ReorderedAtMostOnce == ReorderPlacement /\ Cardinality(Reorders) <= 1

\* As amended: one reorder at the start of every link whose template has an
\* index token.
C7_ReorderedForEachIndexLink ==
    /\ ReorderPlacement
    /\ Succeeded =>
          \A i \in 0..(NumLinks - 1) :
              HasIndexToken(i) => \E k \in Reorders : trace[k].link = i

\* A link without an index token, then two links' worth of reorders: the
\* first changes the order of the batch, the second is asked for again.
C7_Witness ==
    /\ Succeeded
    /\ Cardinality(Reorders) = 2
    /\ \E k \in Reorders : trace[k].flag
    /\ \E k \in 1..Len(trace) : trace[k].op = "sort"

(***************************************************************************)
(* C4.  In extension-preserving mode, for a file name.ext that is not a    *)
(* directory, the final Target ends with .ext exactly once, whatever the   *)
(* replacement produces and however many links the chain has.              *)
(***************************************************************************)

EndsWithOnce(s, suffix) ==
    /\ EndsWith(s, suffix)
    /\ ~EndsWith(SubSeq(s, 1, Len(s) - Len(suffix)), suffix)

\* The claim as stated.
C4_ExtensionKeptExactlyOnce ==
    (Succeeded /\ conf.IgnoreExt) =>
        \A id \in DOMAIN recs :
            (~recs[id].IsDir /\ Ext(orig[id].Source) # <<>>) =>
                /\ Ext(recs[id].Target) = Ext(orig[id].Source)
                /\ EndsWithOnce(recs[id].Target, Ext(orig[id].Source))

\* The name the last link's substitution produced for the record id.
LastStem(id) ==
    LET k == CHOOSE k \in 1..Len(trace) :
                 trace[k].op = "file" /\ trace[k].link = NumLinks - 1 /\ trace[k].id = id
    IN trace[k].stem

\* As amended: the extension is kept up to the white space that ends it,
\* which the trimming of the target removes, and is put once after the name
\* the last link's substitution produced.
C4_ExtensionKeptUpToTrailingSpace ==
    (Succeeded /\ conf.IgnoreExt) =>
        \A id \in DOMAIN recs :
            (~recs[id].IsDir /\ Len(TrimRight(Ext(orig[id].Source))) > 1) =>
                /\ Ext(recs[id].Target) = TrimRight(Ext(orig[id].Source))
                /\ recs[id].Target =
                      NormalizeTarget(LastStem(id) \o Ext(orig[id].Source))

\* Two links, the stem replaced by both, the extension still there.
C4_Witness ==
    /\ Succeeded /\ conf.IgnoreExt /\ NumLinks = 2
    /\ \E id \in DOMAIN recs :
          /\ ~recs[id].IsDir
          /\ Ext(orig[id].Source) = <<".", "a">>
          /\ StripExtension(recs[id].Target) # StripExtension(orig[id].Source)
          /\ RecordedTarget(0, id) # recs[id].Target
          /\ Ext(recs[id].Target) = <<".", "a">>

(***************************************************************************)
(* C8.  When a link's template has no variable token, the Target the link  *)
(* records for a file is the output of regexReplace on the link's input    *)
(* name alone, for every limit and setting of extension-preserving mode.   *)
(***************************************************************************)

PatternOf(i) == Compile(conf.FindSlice[i + 1])

\* The claim as stated.
C8_TargetIsRegexReplaceOutput ==
    \A k \in 1..Len(trace) :
        (trace[k].op = "file" /\ trace[k].flag /\ HasNoToken(trace[k].link)) =>
            trace[k].name =
                regexReplace(PatternOf(trace[k].link), LinkInput(trace[k].link, trace[k].id),
                             conf.ReplacementSlice[trace[k].link + 1], conf.ReplaceLimit)

\* As amended: regexReplace runs on the name without its extension when the
\* extension is set aside, the extension is put back, and the result is
\* cleaned and trimmed.
C8_TargetIsNormalizedRegexOutput ==
    \A k \in 1..Len(trace) :
        (trace[k].op = "file" /\ trace[k].flag /\ HasNoToken(trace[k].link)) =>
            LET input == LinkInput(trace[k].link, trace[k].id)
                strip == conf.IgnoreExt /\ ~recs[trace[k].id].IsDir
                out == regexReplace(PatternOf(trace[k].link),
                                    IF strip THEN StripExtension(input) ELSE input,
                                    conf.ReplacementSlice[trace[k].link + 1],
                                    conf.ReplaceLimit)
            IN trace[k].name = TrimSpace(Clean(IF strip THEN out \o Ext(input) ELSE out))

\* A limited replacement that the extension handling keeps out of the extension.
C8_Witness ==
    \E k \in 1..Len(trace) :
        /\ trace[k].op = "file" /\ trace[k].flag /\ HasNoToken(trace[k].link)
        /\ conf.IgnoreExt /\ conf.ReplaceLimit = -1
        /\ trace[k].link = 1
        /\ trace[k].name # LinkInput(1, trace[k].id)
        /\ trace[k].name # regexReplace(PatternOf(1), LinkInput(1, trace[k].id),
                                        conf.ReplacementSlice[2], conf.ReplaceLimit)

====
